---- MODULE Spec2Model ----
(***************************************************************************)
(* StartupOps: workspace membership and role-derived permissions, the      *)
(* investor swipe/match engine and the clients that drive them.            *)
(*                                                                         *)
(* The relational schema (setup_database.sql) and the React clients        *)
(* (AuthContext, DashboardLayout, InvestorFeedPage, OnboardingPage) are    *)
(* modelled from their sources.  The HTTP handlers behind /api are not     *)
(* part of the sources at hand; they are modelled from the written         *)
(* specification and marked so where they are defined.                     *)
(***************************************************************************)
EXTENDS Integers, Sequences, FiniteSets, TLC

\* ------------------------------------------------------------------ bounds
NumUsers == 2
MaxStartups == 2
NumCodes == 3
MaxLedgerRows == 1
MaxSwipeRows == 1
NumSeedStartups == 3
MaxInFlight == 2
MaxMatches == 2
MaxStartupFetches == 1
MaxCalls == 2
NumJoiners == 2
MaxRaceCodes == 2
MaxRaceCreates == 1
MaxSnapshotRows == 3
NumMonths == 2
MaxAmount == 2
MaxEnvCalls == 1
MaxAuthEvents == 2
MaxFetchSeq == 3

Users == 1..NumUsers
StartupIds == 1..MaxStartups
Codes == 1..NumCodes
Amounts == {-1, 1}

\* ------------------------------------------------------------ schema
\* startup_members.role check constraint
Roles == {"founder", "manager", "member", "investor"}

\* investor_swipes.action check constraint
SwipeActions == {"interested", "passed"}

LedgerKinds == {"income", "expenses", "investments"}

\* unique(startup_id, user_id) on startup_members: would inserting r violate it
MemberUniqueViolation_Dropped(rows, r) == FALSE

MemberUniqueViolation(rows, r) ==
  \E x \in rows : x.startup_id = r.startup_id /\ x.user_id = r.user_id

\* unique(investor_id, startup_id) on investor_swipes
SwipeUniqueViolation_Dropped(rows, r) == FALSE

SwipeUniqueViolation(rows, r) ==
  \E x \in rows : x.investor_id = r.investor_id /\ x.startup_id = r.startup_id

\* ------------------------------------------------------- AuthContext.js
\* PERMISSIONS: one boolean function of the role per capability
canManageContent(role) == role \in {"founder", "manager"}
canViewAnalytics(role) == role \in {"founder", "manager"}
canAccessPitch(role) == role = "founder"
canManageTeam(role) == role \in {"founder", "manager"}
canViewTeam(role) == role \in {"founder", "manager", "member"}
canViewTasks(role) == role \in {"founder", "manager", "member"}
canManageStartup(role) == role = "founder"
canViewInvestorFeed_NoCheck(role) == TRUE

canViewInvestorFeed(role) == role = "investor"
canViewMyInvestments(role) == role = "investor"
canManageInvestors(role) == role \in {"founder", "manager"}

CapabilityNames ==
  {"canManageContent", "canViewAnalytics", "canAccessPitch", "canManageTeam",
   "canViewTeam", "canViewTasks", "canManageStartup", "canViewInvestorFeed",
   "canViewMyInvestments", "canManageInvestors"}

\* the permissions object the provider derives from userRole
PermissionsOf(role) ==
  [canManageContent |-> canManageContent(role),
   canViewAnalytics |-> canViewAnalytics(role),
   canAccessPitch |-> canAccessPitch(role),
   canManageTeam |-> canManageTeam(role),
   canViewTeam |-> canViewTeam(role),
   canViewTasks |-> canViewTasks(role),
   canManageStartup |-> canManageStartup(role),
   canViewInvestorFeed |-> canViewInvestorFeed(role),
   canViewMyInvestments |-> canViewMyInvestments(role),
   canManageInvestors |-> canManageInvestors(role)]

\* ------------------------------------------------------------- state
VARIABLES
  \* the relational store
  db_startups,        \* startups rows: [id, founder_id, invite_code]
  db_startup_members, \* startup_members rows: [startup_id, user_id, role]
  db_investor_swipes, \* investor_swipes rows: [investor_id, startup_id, action]
  db_ledger,          \* income / expenses / investments rows
  investor_flag,      \* users holding the platform-level investor designation
  issued,             \* how many invite codes the generator has produced so far
  last,               \* the registry/matching/ledger call handled last: [op, result]
  \* InvestorFeedPage component state and its requests
  feedUser,           \* the user whose token the page sends
  loading,
  browsableStartups,
  currentIndex,
  matches,
  fetch,              \* the Promise.all of fetchBrowseData: [state, browse, matches]
  inflight,           \* swipe / remove-match requests not yet returned to the page
  lastDecision,       \* per workspace, the feed user's most recent swipe/undo/remove
  toast,              \* the notification the page raised last
  \* AuthContext provider state
  session,
  startups,
  currentStartup,
  startupsLoaded,
  currentStartupId,   \* localStorage item "currentStartupId"
  startupFetches,     \* GET /startups responses not yet returned to the provider
  \* registry calls handled as separate read and write steps
  calls,              \* calls in progress: [id, op, user, code, ws, phase, result]
  okCount,            \* per (workspace, user): joins that were answered ok
  \* the metrics endpoint
  snapshot,           \* the snapshot computed last
  \* AuthProvider: init, the auth-state listener and the requests they start
  idpSession,         \* the identity provider's session (0: signed out)
  authEvents,         \* auth-state events emitted and not yet delivered to the listener
  profile,
  authLoading,        \* the provider's loading flag
  initPc,             \* position of init: "start", "waiting" (Promise.all), "done"
  pending,            \* /auth/me, /auth/verify and /startups requests not yet returned
  envCalls,           \* listener and refresh calls that started requests so far
  fetchSeq,           \* fetchStartups calls started so far
  applied,            \* the fetchStartups call whose response set startups last
  \* OnboardingPage
  onboarding          \* the join form: [state, user, code, answer, toast, route]

dbVars == <<db_startups, db_startup_members, db_investor_swipes, db_ledger, investor_flag,
            issued>>

feedVars == <<feedUser, loading, browsableStartups, currentIndex, matches, fetch,
              inflight, lastDecision, toast>>

authVars == <<session, startups, currentStartup, startupsLoaded, currentStartupId,
              startupFetches>>

raceVars == <<calls, okCount>>

providerVars == <<idpSession, authEvents, profile, authLoading, initPc, pending, envCalls,
                  fetchSeq, applied>>

clientVars == <<feedVars, authVars, raceVars, snapshot, providerVars, onboarding>>

vars == <<dbVars, last, feedVars, authVars, raceVars, snapshot, providerVars, onboarding>>

\* ------------------------------------------------------ store lookups
StartupIdsInUse == {s.id : s \in db_startups}

InviteCodesInUse == {s.invite_code : s \in db_startups}

StartupById(ws) == CHOOSE s \in db_startups : s.id = ws

MemberRows(ws, u) ==
  {m \in db_startup_members : m.startup_id = ws /\ m.user_id = u}

\* the actor's role for the target workspace, resolved by membership lookup
RoleOf(ws, u) ==
  IF MemberRows(ws, u) = {} THEN "none"
  ELSE (CHOOSE m \in MemberRows(ws, u) : TRUE).role

SwipeRowsOf(u, ws) ==
  {r \in db_investor_swipes : r.investor_id = u /\ r.startup_id = ws}

\* the platform-level investor designation, as the role the swipe gate sees
PlatformRole(u) == IF u \in investor_flag THEN "investor" ELSE "none"

\* derivePermissions(role) contains the capability
HasCapability_Always(role, cap) == TRUE

HasCapability(role, cap) == PermissionsOf(role)[cap]

\* ------------------------------------------- store writes under the schema
\* insert into startup_members: the store rejects a row that violates unique
InsertMember(rows, r) ==
  IF MemberUniqueViolation(rows, r) THEN rows ELSE rows \cup {r}

\* insert ... on conflict (investor_id, startup_id) do update
UpsertSwipe(rows, r) ==
  IF SwipeUniqueViolation(rows, r)
  THEN {x \in rows : ~(x.investor_id = r.investor_id /\ x.startup_id = r.startup_id)}
       \cup {r}
  ELSE rows \cup {r}

DeleteSwipe(rows, u, ws) ==
  {x \in rows : ~(x.investor_id = u /\ x.startup_id = ws)}

\* ------------------------------------------------- Matching Engine handlers
\* POST /investor/swipe/{startup_id}: the result of the call in this state
SwipeResult(u, ws, action) ==
  IF ~HasCapability(PlatformRole(u), "canViewInvestorFeed") THEN "ForbiddenError"
  ELSE IF ws \notin StartupIdsInUse THEN "NotFoundError"
  ELSE IF StartupById(ws).founder_id = u THEN "NotFoundError"
  ELSE IF action \notin SwipeActions THEN "ValidationError"
  ELSE "ok"

SwipeWrite(u, ws, action) ==
  IF SwipeResult(u, ws, action) = "ok"
  THEN UpsertSwipe(db_investor_swipes,
                   [investor_id |-> u, startup_id |-> ws, action |-> action])
  ELSE db_investor_swipes

\* DELETE /investor/matches/{startup_id}
RemoveMatchResult(u, ws) ==
  IF ~HasCapability(PlatformRole(u), "canViewInvestorFeed") THEN "ForbiddenError"
  ELSE "ok"

RemoveMatchWrite(u, ws) ==
  IF RemoveMatchResult(u, ws) = "ok"
  THEN DeleteSwipe(db_investor_swipes, u, ws)
  ELSE db_investor_swipes

BrowsableSet_KeepsPassed(u) ==
  {s.id : s \in {x \in db_startups :
                   /\ x.founder_id # u
                   /\ \A r \in SwipeRowsOf(u, x.id) : r.action = "passed"}}

\* GET /investor/browse: workspaces with no swipe row of the investor, not
\* the investor's own, in a stable order (ascending id)
BrowsableSet(u) ==
  {s.id : s \in {x \in db_startups :
                   /\ x.founder_id # u
                   /\ SwipeRowsOf(u, x.id) = {}}}

\* GET /investor/matches
MatchSet(u) ==
  {r.startup_id : r \in {x \in db_investor_swipes :
                           x.investor_id = u /\ x.action = "interested"}}

\* ------------------------------------------------ Workspace Registry API
\* the invite code generator: a token it has not produced before
FreshCode_SmallestUnused ==
  CHOOSE c \in 1..(issued + 1) :
    c \notin InviteCodesInUse /\ \A d \in 1..(issued + 1) : d \notin InviteCodesInUse => c <= d

FreshCode == issued + 1

\* POST /startups (OnboardingPage: handleCreateStartup sends the form,
\* handleInvestorSetup sends initial_role = investor)
CreateStartup(u, nameOk, initial_role, code) ==
  /\ IF ~nameOk
     THEN /\ last' = [op |-> "createStartup", result |-> "ValidationError"]
          /\ UNCHANGED <<dbVars, clientVars>>
     ELSE /\ StartupIds \ StartupIdsInUse # {}
          /\ code \in Codes \ InviteCodesInUse
          /\ LET id == CHOOSE i \in StartupIds \ StartupIdsInUse :
                         \A j \in StartupIds \ StartupIdsInUse : i <= j
             IN /\ db_startups' = db_startups \cup
                     {[id |-> id, founder_id |-> u, invite_code |-> code]}
                /\ db_startup_members' = InsertMember(db_startup_members,
                     [startup_id |-> id, user_id |-> u, role |-> initial_role])
          /\ investor_flag' = IF initial_role = "investor"
                              THEN investor_flag \cup {u} ELSE investor_flag
          /\ issued' = IF code > issued THEN code ELSE issued
          /\ last' = [op |-> "createStartup", result |-> "ok"]
          /\ UNCHANGED <<db_investor_swipes, db_ledger, clientVars>>

\* POST /startups/join
JoinResult(u, code, role) ==
  IF code \notin InviteCodesInUse THEN "NotFoundError"
  ELSE LET s == CHOOSE x \in db_startups : x.invite_code = code
       IN IF MemberUniqueViolation(db_startup_members,
                [startup_id |-> s.id, user_id |-> u, role |-> role])
          THEN "ConflictError"
          ELSE IF role = "investor" /\ u \notin investor_flag THEN "ForbiddenError"
          ELSE "ok"

JoinWrite(u, code, role) ==
  IF JoinResult(u, code, role) = "ok"
  THEN LET s == CHOOSE x \in db_startups : x.invite_code = code
       IN InsertMember(db_startup_members,
             [startup_id |-> s.id, user_id |-> u, role |-> role])
  ELSE db_startup_members

JoinStartup(u, code, role) ==
  /\ db_startup_members' = JoinWrite(u, code, role)
  /\ last' = [op |-> "join", result |-> JoinResult(u, code, role)]
  /\ UNCHANGED <<db_startups, db_investor_swipes, db_ledger, investor_flag, issued, clientVars>>

\* regenerate the invite code
RegenerateInviteCode(ws, actor, code) ==
  /\ code \in Codes \ InviteCodesInUse
  /\ IF ws \notin StartupIdsInUse
     THEN /\ last' = [op |-> "regenerateInviteCode", result |-> "NotFoundError"]
          /\ UNCHANGED <<dbVars, clientVars>>
     ELSE IF ~HasCapability(RoleOf(ws, actor), "canManageStartup")
     THEN /\ last' = [op |-> "regenerateInviteCode", result |-> "ForbiddenError"]
          /\ UNCHANGED <<dbVars, clientVars>>
     ELSE /\ db_startups' = (db_startups \ {StartupById(ws)}) \cup
               {[StartupById(ws) EXCEPT !.invite_code = code]}
          /\ issued' = IF code > issued THEN code ELSE issued
          /\ last' = [op |-> "regenerateInviteCode", result |-> "ok"]
          /\ UNCHANGED <<db_startup_members, db_investor_swipes, db_ledger, investor_flag, clientVars>>

\* remove a member
RemoveMemberResult(ws, actor, target) ==
  IF ws \notin StartupIdsInUse THEN "NotFoundError"
  ELSE IF ~HasCapability(RoleOf(ws, actor), "canManageTeam") THEN "ForbiddenError"
  ELSE IF StartupById(ws).founder_id = target THEN "SelfRemovalError"
  ELSE "ok"

RemoveMember(ws, actor, target) ==
  /\ db_startup_members' =
       IF RemoveMemberResult(ws, actor, target) = "ok"
       THEN db_startup_members \ MemberRows(ws, target)
       ELSE db_startup_members
  /\ last' = [op |-> "removeMember", result |-> RemoveMemberResult(ws, actor, target)]
  /\ UNCHANGED <<db_startups, db_investor_swipes, db_ledger, investor_flag, issued, clientVars>>

\* change a member's role
ChangeRoleResult(ws, actor, target, role) ==
  IF ws \notin StartupIdsInUse THEN "NotFoundError"
  ELSE IF ~HasCapability(RoleOf(ws, actor), "canManageTeam") THEN "ForbiddenError"
  ELSE IF StartupById(ws).founder_id = target THEN "SelfRemovalError"
  ELSE IF MemberRows(ws, target) = {} THEN "NotFoundError"
  ELSE "ok"

ChangeRole(ws, actor, target, role) ==
  /\ db_startup_members' =
       IF ChangeRoleResult(ws, actor, target, role) = "ok"
       THEN (db_startup_members \ MemberRows(ws, target)) \cup
            {[startup_id |-> ws, user_id |-> target, role |-> role]}
       ELSE db_startup_members
  /\ last' = [op |-> "changeRole", result |-> ChangeRoleResult(ws, actor, target, role)]
  /\ UNCHANGED <<db_startups, db_investor_swipes, db_ledger, investor_flag, issued, clientVars>>

\* ----------------------------------------------------- Matching Engine API
Swipe(u, ws, action) ==
  /\ \/ SwipeResult(u, ws, action) # "ok"
     \/ SwipeRowsOf(u, ws) # {}
     \/ Cardinality(db_investor_swipes) < MaxSwipeRows
  /\ db_investor_swipes' = SwipeWrite(u, ws, action)
  /\ last' = [op |-> "swipe", result |-> SwipeResult(u, ws, action)]
  /\ UNCHANGED <<db_startups, db_startup_members, db_ledger, investor_flag, issued, clientVars>>

RemoveMatch(u, ws) ==
  /\ db_investor_swipes' = RemoveMatchWrite(u, ws)
  /\ last' = [op |-> "removeMatch", result |-> RemoveMatchResult(u, ws)]
  /\ UNCHANGED <<db_startups, db_startup_members, db_ledger, investor_flag, issued, clientVars>>

\* ------------------------------------------------------------- ledger API
LedgerCapability(kind) ==
  IF kind = "investments" THEN "canViewMyInvestments" ELSE "canViewTasks"

LedgerResult_NoAmountCheck(u, ws, kind, amount) ==
  IF ws \notin StartupIdsInUse THEN "NotFoundError"
  ELSE IF ~HasCapability(RoleOf(ws, u), LedgerCapability(kind)) THEN "ForbiddenError"
  ELSE "ok"

LedgerResult(u, ws, kind, amount) ==
  IF ws \notin StartupIdsInUse THEN "NotFoundError"
  ELSE IF ~HasCapability(RoleOf(ws, u), LedgerCapability(kind)) THEN "ForbiddenError"
  ELSE IF amount < 0 THEN "ValidationError"
  ELSE "ok"

FreeLedgerId ==
  CHOOSE i \in 1..(Cardinality(db_ledger) + 1) :
    /\ i \notin {r.id : r \in db_ledger}
    /\ \A j \in 1..(Cardinality(db_ledger) + 1) : j \notin {r.id : r \in db_ledger} => i <= j

\* POST /startups/{id}/finance/{income|expenses|investments}
AddLedgerEntry(u, ws, kind, amount, month) ==
  /\ db_ledger' =
       IF LedgerResult(u, ws, kind, amount) = "ok"
       THEN db_ledger \cup
            {[id |-> FreeLedgerId, kind |-> kind, startup_id |-> ws,
              amount |-> amount, month |-> month, created_by |-> u]}
       ELSE db_ledger
  /\ last' = [op |-> "addLedgerEntry", result |-> LedgerResult(u, ws, kind, amount)]
  /\ UNCHANGED <<db_startups, db_startup_members, db_investor_swipes, investor_flag, issued, clientVars>>

\* MyInvestmentsPage.addInvestment: the form is refused unless amount > 0,
\* otherwise the investment is posted for the selected workspace
AddInvestmentAccepted(amount) == amount > 0

AddInvestment(u, ws, amount, month) ==
  IF AddInvestmentAccepted(amount)
  THEN AddLedgerEntry(u, ws, "investments", amount, month)
  ELSE UNCHANGED vars

\* -------------------------------------------------- store: delete cascade
\* rows that survive the deletion of a workspace (on delete cascade)
CascadeMembers(rows, ws) == {m \in rows : m.startup_id # ws}

CascadeSwipes_Kept(rows, ws) == rows

CascadeSwipes(rows, ws) == {r \in rows : r.startup_id # ws}

CascadeLedger(rows, ws) == {r \in rows : r.startup_id # ws}

\* delete from startups where id = ws
DeleteStartup(ws) ==
  /\ ws \in StartupIdsInUse
  /\ db_startups' = db_startups \ {StartupById(ws)}
  /\ db_startup_members' = CascadeMembers(db_startup_members, ws)
  /\ db_investor_swipes' = CascadeSwipes(db_investor_swipes, ws)
  /\ db_ledger' = CascadeLedger(db_ledger, ws)
  /\ last' = [op |-> "deleteStartup", result |-> "ok"]
  /\ UNCHANGED <<investor_flag, issued, clientVars>>

\* ---------------------------------------------------- Metrics Aggregator
LedgerRowsOf_AnyWorkspace(rows, kind, ws) == {r \in rows : r.kind = kind}

LedgerRowsOf(rows, kind, ws) == {r \in rows : r.kind = kind /\ r.startup_id = ws}

RECURSIVE SumAmounts(_)
SumAmounts(rows) ==
  IF rows = {} THEN 0
  ELSE LET r == CHOOSE x \in rows : TRUE
       IN r.amount + SumAmounts(rows \ {r})

\* the average of the per-month expense sums, as the fraction num / den
MonthlyBurnOf(expenses) ==
  [num |-> SumAmounts(expenses),
   den |-> IF expenses = {} THEN 1 ELSE Cardinality({r.month : r \in expenses})]

NoRunway == [defined |-> FALSE, value |-> 0]

RunwayOf_ZeroMonths(balance, burn) ==
  IF burn.num > 0
  THEN [defined |-> TRUE, value |-> (balance * burn.den) \div burn.num]
  ELSE [defined |-> TRUE, value |-> 0]

RunwayOf(balance, burn) ==
  IF burn.num > 0
  THEN [defined |-> TRUE, value |-> (balance * burn.den) \div burn.num]
  ELSE NoRunway

TeamSizeOf_CountsInvestors(members, ws) ==
  Cardinality({m \in members : m.startup_id = ws})

TeamSizeOf(members, ws) ==
  Cardinality({m \in members : m.startup_id = ws /\ m.role # "investor"})

SnapshotOf(ledger, members, ws) ==
  LET raised == SumAmounts(LedgerRowsOf(ledger, "investments", ws))
      balance == SumAmounts(LedgerRowsOf(ledger, "income", ws)) + raised
                   - SumAmounts(LedgerRowsOf(ledger, "expenses", ws))
      burn == MonthlyBurnOf(LedgerRowsOf(ledger, "expenses", ws))
  IN [startup_id |-> ws, total_raised |-> raised, balance |-> balance,
      monthly_burn |-> burn, runway |-> RunwayOf(balance, burn),
      team_size |-> TeamSizeOf(members, ws)]

NoSnapshot == SnapshotOf({}, {}, 0)

\* GET /startups/{id}/investor-view: computeSnapshot of the workspace
GetSnapshot(ws) ==
  /\ ws \in StartupIdsInUse
  /\ snapshot' = SnapshotOf(db_ledger, db_startup_members, ws)
  /\ UNCHANGED <<dbVars, last, feedVars, authVars, raceVars, providerVars, onboarding>>

\* ------------------------------------------------- InvestorFeedPage.js
RECURSIVE SortedSeq(_)
SortedSeq(S) ==
  IF S = {} THEN <<>>
  ELSE LET m == CHOOSE x \in S : \A y \in S : x <= y
       IN <<m>> \o SortedSeq(S \ {m})

Range(q) == {q[i] : i \in DOMAIN q}

SeedStartupIds == 1..NumSeedStartups

NoFetch ==
  [state |-> "idle", browseDone |-> FALSE, browseOk |-> FALSE, browse |-> <<>>,
   matchesDone |-> FALSE, matchesOk |-> FALSE, matches |-> <<>>]

FreeSlots == (1..MaxInFlight) \ {r.id : r \in inflight}

\* useEffect -> loadAll: setLoading(true), then fetchBrowseData issues both GETs
LoadAll ==
  /\ fetch.state = "idle"
  /\ loading' = TRUE
  /\ fetch' = [NoFetch EXCEPT !.state = "pending"]
  /\ UNCHANGED <<feedUser, browsableStartups, currentIndex, matches, inflight, lastDecision, toast>>
  /\ UNCHANGED <<dbVars, last, authVars, raceVars, snapshot, providerVars, onboarding>>

\* GET /investor/browse answered for the page's user
ServeBrowse ==
  /\ fetch.state = "pending" /\ ~fetch.browseDone
  /\ fetch' = [fetch EXCEPT
       !.browseDone = TRUE,
       !.browseOk = HasCapability(PlatformRole(feedUser), "canViewInvestorFeed"),
       !.browse = IF HasCapability(PlatformRole(feedUser), "canViewInvestorFeed")
                  THEN SortedSeq(BrowsableSet(feedUser)) ELSE <<>>]
  /\ UNCHANGED <<feedUser, loading, browsableStartups, currentIndex, matches, inflight, lastDecision, toast>>
  /\ UNCHANGED <<dbVars, last, authVars, raceVars, snapshot, providerVars, onboarding>>

\* GET /investor/matches answered for the page's user
ServeMatches ==
  /\ fetch.state = "pending" /\ ~fetch.matchesDone
  /\ fetch' = [fetch EXCEPT
       !.matchesDone = TRUE,
       !.matchesOk = HasCapability(PlatformRole(feedUser), "canViewInvestorFeed"),
       !.matches = IF HasCapability(PlatformRole(feedUser), "canViewInvestorFeed")
                   THEN SortedSeq(MatchSet(feedUser)) ELSE <<>>]
  /\ UNCHANGED <<feedUser, loading, browsableStartups, currentIndex, matches, inflight, lastDecision, toast>>
  /\ UNCHANGED <<dbVars, last, authVars, raceVars, snapshot, providerVars, onboarding>>

FetchRejected ==
  \/ fetch.browseDone /\ ~fetch.browseOk
  \/ fetch.matchesDone /\ ~fetch.matchesOk

\* fetchBrowseData after the await, then loadAll's setLoading(false)
FetchReturn ==
  /\ fetch.state = "pending"
  /\ FetchRejected \/ (fetch.browseDone /\ fetch.matchesDone)
  /\ IF FetchRejected
     THEN UNCHANGED <<browsableStartups, matches, currentIndex>>
     ELSE /\ browsableStartups' = fetch.browse
          /\ matches' = fetch.matches
          /\ currentIndex' = 0
  /\ loading' = FALSE
  /\ fetch' = NoFetch
  /\ UNCHANGED <<feedUser, inflight, lastDecision, toast>>
  /\ UNCHANGED <<dbVars, last, authVars, raceVars, snapshot, providerVars, onboarding>>

\* handleSwipe up to the await: the card on top is browsableStartups[currentIndex]
HandleSwipe(action) ==
  /\ ~loading
  /\ currentIndex + 1 \in DOMAIN browsableStartups
  /\ FreeSlots # {}
  /\ Len(matches) + Cardinality({r \in inflight : r.kind = "swipe"}) < MaxMatches
  /\ inflight' = inflight \cup
       {[id |-> CHOOSE i \in FreeSlots : \A j \in FreeSlots : i <= j,
         kind |-> "swipe", ws |-> browsableStartups[currentIndex + 1],
         action |-> action, status |-> "sent"]}
  /\ UNCHANGED <<feedUser, loading, browsableStartups, currentIndex, matches, fetch, lastDecision, toast>>
  /\ UNCHANGED <<dbVars, last, authVars, raceVars, snapshot, providerVars, onboarding>>

\* POST /investor/swipe/{startup_id} handled by the server
ServeSwipe(r) ==
  /\ r \in inflight /\ r.kind = "swipe" /\ r.status = "sent"
  /\ db_investor_swipes' = SwipeWrite(feedUser, r.ws, r.action)
  /\ inflight' = (inflight \ {r}) \cup
       {[r EXCEPT !.status = IF SwipeResult(feedUser, r.ws, r.action) = "ok"
                              THEN "ok" ELSE "error"]}
  /\ lastDecision' = IF SwipeResult(feedUser, r.ws, r.action) = "ok"
                     THEN [lastDecision EXCEPT ![r.ws] = r.action]
                     ELSE lastDecision
  /\ UNCHANGED <<feedUser, loading, browsableStartups, currentIndex, matches, fetch, toast>>
  /\ UNCHANGED <<db_startups, db_startup_members, db_ledger, investor_flag, issued, last, authVars,
               raceVars, snapshot, providerVars, onboarding>>

\* the request does not reach the server (axios rejects)
RequestFails(r) ==
  /\ r \in inflight /\ r.status = "sent"
  /\ inflight' = (inflight \ {r}) \cup {[r EXCEPT !.status = "error"]}
  /\ UNCHANGED <<feedUser, loading, browsableStartups, currentIndex, matches, fetch, lastDecision, toast>>
  /\ UNCHANGED <<dbVars, last, authVars, raceVars, snapshot, providerVars, onboarding>>

\* the matches list after a swipe that succeeded
MatchesAfterSwipe(prev, ws, action) ==
  IF action = "interested" THEN <<ws>> \o prev ELSE prev

\* the deck position after a swipe request returned
IndexAfterSwipe_Always(prev, ok) == prev + 1

IndexAfterSwipe(prev, ok) == IF ok THEN prev + 1 ELSE prev

\* handleSwipe after the await (try: success path, catch: toast only)
SwipeReturn(r) ==
  /\ r \in inflight /\ r.kind = "swipe" /\ r.status \in {"ok", "error"}
  /\ IF r.status = "ok"
     THEN /\ matches' = MatchesAfterSwipe(matches, r.ws, r.action)
          /\ toast' = r.action
     ELSE /\ UNCHANGED matches
          /\ toast' = "Failed to record swipe"
  /\ currentIndex' = IndexAfterSwipe(currentIndex, r.status = "ok")
  /\ inflight' = inflight \ {r}
  /\ UNCHANGED <<feedUser, loading, browsableStartups, fetch, lastDecision>>
  /\ UNCHANGED <<dbVars, last, authVars, raceVars, snapshot, providerVars, onboarding>>

\* handleRemoveMatch up to the await (the trash button of a MatchCard)
HandleRemoveMatch(ws) ==
  /\ ~loading
  /\ ws \in Range(matches)
  /\ FreeSlots # {}
  /\ inflight' = inflight \cup
       {[id |-> CHOOSE i \in FreeSlots : \A j \in FreeSlots : i <= j,
         kind |-> "remove", ws |-> ws, action |-> "none", status |-> "sent"]}
  /\ UNCHANGED <<feedUser, loading, browsableStartups, currentIndex, matches, fetch, lastDecision, toast>>
  /\ UNCHANGED <<dbVars, last, authVars, raceVars, snapshot, providerVars, onboarding>>

\* DELETE /investor/matches/{startup_id} handled by the server
ServeRemove(r) ==
  /\ r \in inflight /\ r.kind = "remove" /\ r.status = "sent"
  /\ db_investor_swipes' = RemoveMatchWrite(feedUser, r.ws)
  /\ inflight' = (inflight \ {r}) \cup
       {[r EXCEPT !.status = IF RemoveMatchResult(feedUser, r.ws) = "ok"
                              THEN "ok" ELSE "error"]}
  /\ lastDecision' = IF RemoveMatchResult(feedUser, r.ws) = "ok"
                     THEN [lastDecision EXCEPT ![r.ws] = "removed"]
                     ELSE lastDecision
  /\ UNCHANGED <<feedUser, loading, browsableStartups, currentIndex, matches, fetch, toast>>
  /\ UNCHANGED <<db_startups, db_startup_members, db_ledger, investor_flag, issued, last, authVars,
               raceVars, snapshot, providerVars, onboarding>>

\* handleRemoveMatch after the await
RemoveReturn(r) ==
  /\ r \in inflight /\ r.kind = "remove" /\ r.status \in {"ok", "error"}
  /\ IF r.status = "ok"
     THEN /\ matches' = SelectSeq(matches, LAMBDA m : m # r.ws)
          /\ toast' = "Match removed"
     ELSE /\ UNCHANGED matches
          /\ toast' = "Failed to remove match"
  /\ inflight' = inflight \ {r}
  /\ UNCHANGED <<feedUser, loading, browsableStartups, currentIndex, fetch, lastDecision>>
  /\ UNCHANGED <<dbVars, last, authVars, raceVars, snapshot, providerVars, onboarding>>

\* handleUndoSwipe: steps the deck back one card; the button is rendered with
\* the action buttons (cardsRemaining > 0) and disabled at index 0
HandleUndoSwipe ==
  /\ ~loading
  /\ Len(browsableStartups) - currentIndex > 0
  /\ currentIndex # 0
  /\ currentIndex' = currentIndex - 1
  /\ lastDecision' = [lastDecision EXCEPT ![browsableStartups[currentIndex]] = "undo"]
  /\ toast' = "Undo! Showing previous startup"
  /\ UNCHANGED <<feedUser, loading, browsableStartups, matches, fetch, inflight>>
  /\ UNCHANGED <<dbVars, last, authVars, raceVars, snapshot, providerVars, onboarding>>

\* ------------------------------------------------------- AuthContext.js
NoStartup == [id |-> 0, user_role |-> "undefined"]

\* GET /startups: the caller's workspaces with the caller's role in each
ListStartupsForUser(u) ==
  LET ids == SortedSeq({m.startup_id : m \in {x \in db_startup_members : x.user_id = u}})
  IN [i \in DOMAIN ids |-> [id |-> ids[i], user_role |-> RoleOf(ids[i], u)]]

FreeFetchSlots == (1..MaxStartupFetches) \ {f.id : f \in startupFetches}

\* fetchStartups up to the await; the response carries what the server, or the
\* failing request, answers
IssueFetchStartups(u, ok) ==
  startupFetches' = startupFetches \cup
    {[id |-> CHOOSE i \in FreeFetchSlots : \A j \in FreeFetchSlots : i <= j,
      ok |-> ok,
      data |-> IF ok THEN ListStartupsForUser(u) ELSE <<>>]}

\* onAuthStateChange with a session (sign-in): setSession, then fetchStartups
SignIn(u, ok) ==
  /\ session = 0
  /\ FreeFetchSlots # {}
  /\ session' = u
  /\ IssueFetchStartups(u, ok)
  /\ UNCHANGED <<startups, currentStartup, startupsLoaded, currentStartupId>>
  /\ UNCHANGED <<dbVars, last, feedVars, raceVars, snapshot, providerVars, onboarding>>

\* the startup picked among the fetched ones: the saved id if present, else the first
SelectedAfterFetch(data, savedId) ==
  IF \E i \in DOMAIN data : data[i].id = savedId
  THEN data[CHOOSE i \in DOMAIN data :
              /\ data[i].id = savedId
              /\ \A j \in DOMAIN data : data[j].id = savedId => i <= j]
  ELSE data[1]

\* fetchStartups after the await
FetchStartupsReturn(f) ==
  /\ f \in startupFetches
  /\ IF f.ok
     THEN /\ startups' = f.data
          /\ currentStartup' = IF Len(f.data) > 0
                               THEN SelectedAfterFetch(f.data, currentStartupId)
                               ELSE currentStartup
     ELSE UNCHANGED <<startups, currentStartup>>
  /\ startupsLoaded' = TRUE
  /\ startupFetches' = startupFetches \ {f}
  /\ UNCHANGED <<session, currentStartupId>>
  /\ UNCHANGED <<dbVars, last, feedVars, raceVars, snapshot, providerVars, onboarding>>

\* selectStartup, called by the workspace selector with an entry of startups
SelectStartup(i) ==
  /\ i \in DOMAIN startups
  /\ currentStartup' = startups[i]
  /\ currentStartupId' = startups[i].id
  /\ UNCHANGED <<session, startups, startupsLoaded, startupFetches>>
  /\ UNCHANGED <<dbVars, last, feedVars, raceVars, snapshot, providerVars, onboarding>>

\* refreshStartups
RefreshStartups(ok) ==
  /\ session # 0
  /\ FreeFetchSlots # {}
  /\ IssueFetchStartups(session, ok)
  /\ UNCHANGED <<session, startups, currentStartup, startupsLoaded, currentStartupId>>
  /\ UNCHANGED <<dbVars, last, feedVars, raceVars, snapshot, providerVars, onboarding>>

\* signOut
SignOut ==
  /\ session # 0
  /\ session' = 0
  /\ startups' = <<>>
  /\ currentStartup' = NoStartup
  /\ currentStartupId' = 0
  /\ UNCHANGED <<startupsLoaded, startupFetches>>
  /\ UNCHANGED <<dbVars, last, feedVars, raceVars, snapshot, providerVars, onboarding>>

\* userRole: currentStartup?.user_role || "member"
UserRole_OfFirstStartup ==
  IF Len(startups) = 0 THEN "member" ELSE startups[1].user_role

UserRole_NoDefault == currentStartup.user_role

UserRole ==
  IF currentStartup.user_role = "undefined" THEN "member" ELSE currentStartup.user_role

\* permissions
Permissions == PermissionsOf(UserRole)

\* ------------------------------------- registry calls, read then write
\* The server reads (resolves the code, looks the caller up, generates a
\* token) and then writes; the store's constraints decide the write.
Joiners == (NumUsers + 1)..(NumUsers + NumJoiners)

RaceStartupIds == 1..(NumSeedStartups + MaxRaceCreates)

FreeCallSlots == (1..MaxCalls) \ {k.id : k \in calls}

NewCall(op, u, ws, code) ==
  [id |-> CHOOSE i \in FreeCallSlots : \A j \in FreeCallSlots : i <= j,
   op |-> op, user |-> u, code |-> code, ws |-> ws, phase |-> "sent", result |-> "none"]

Answered(k, ws, code, result) ==
  [k EXCEPT !.phase = "done", !.ws = ws, !.code = code, !.result = result]

\* the startups table has no constraint on invite_code
InviteCodeUniqueViolation(rows, code) == FALSE

\* handleJoinStartup: POST /startups/join {invite_code}
PostJoin(u, code) ==
  /\ FreeCallSlots # {}
  /\ calls' = calls \cup {NewCall("join", u, 0, code)}
  /\ UNCHANGED <<dbVars, last, feedVars, authVars, okCount, snapshot, providerVars, onboarding>>

\* join, read step: resolve the code and look up the caller's membership
JoinLookup(k) ==
  /\ k \in calls /\ k.op = "join" /\ k.phase = "sent"
  /\ calls' = (calls \ {k}) \cup
       {IF JoinResult(k.user, k.code, "member") = "NotFoundError"
        THEN Answered(k, 0, k.code, "NotFoundError")
        ELSE LET s == CHOOSE x \in db_startups : x.invite_code = k.code
             IN IF JoinResult(k.user, k.code, "member") = "ok"
                THEN [k EXCEPT !.phase = "read", !.ws = s.id]
                ELSE Answered(k, s.id, k.code, JoinResult(k.user, k.code, "member"))}
  /\ UNCHANGED <<dbVars, last, feedVars, authVars, okCount, snapshot, providerVars, onboarding>>

\* join, write step: the insert, rejected by the store on a duplicate pair
JoinInsert(k) ==
  /\ k \in calls /\ k.op = "join" /\ k.phase = "read"
  /\ LET row == [startup_id |-> k.ws, user_id |-> k.user, role |-> "member"]
     IN IF MemberUniqueViolation(db_startup_members, row)
        THEN /\ calls' = (calls \ {k}) \cup {Answered(k, k.ws, k.code, "ConflictError")}
             /\ UNCHANGED <<db_startup_members, okCount>>
        ELSE /\ db_startup_members' = db_startup_members \cup {row}
             /\ calls' = (calls \ {k}) \cup {Answered(k, k.ws, k.code, "ok")}
             /\ okCount' = [okCount EXCEPT ![k.ws, k.user] = @ + 1]
  /\ UNCHANGED <<db_startups, db_investor_swipes, db_ledger, investor_flag, issued>>
  /\ UNCHANGED <<last, feedVars, authVars, snapshot, providerVars, onboarding>>

\* handleCreateStartup: POST /startups
PostCreate(u) ==
  /\ FreeCallSlots # {}
  /\ calls' = calls \cup {NewCall("createStartup", u, 0, 0)}
  /\ UNCHANGED <<dbVars, last, feedVars, authVars, okCount, snapshot, providerVars, onboarding>>

\* regenerate the invite code of a workspace
PostRegenerate(ws, actor) ==
  /\ FreeCallSlots # {}
  /\ calls' = calls \cup {NewCall("regenerateInviteCode", actor, ws, 0)}
  /\ UNCHANGED <<dbVars, last, feedVars, authVars, okCount, snapshot, providerVars, onboarding>>

\* create / regenerate, read step: authorise and generate the token
Generate(k) ==
  /\ k \in calls /\ k.op \in {"createStartup", "regenerateInviteCode"} /\ k.phase = "sent"
  /\ FreshCode <= NumSeedStartups + MaxRaceCodes
  /\ calls' = (calls \ {k}) \cup
       {IF k.op = "regenerateInviteCode" /\ k.ws \notin StartupIdsInUse
        THEN Answered(k, k.ws, 0, "NotFoundError")
        ELSE IF k.op = "regenerateInviteCode"
                /\ ~HasCapability(RoleOf(k.ws, k.user), "canManageStartup")
        THEN Answered(k, k.ws, 0, "ForbiddenError")
        ELSE [k EXCEPT !.phase = "read", !.code = FreshCode]}
  /\ UNCHANGED <<dbVars, last, feedVars, authVars, okCount, snapshot, providerVars, onboarding>>

\* create / regenerate, write step
WriteCode(k) ==
  /\ k \in calls /\ k.op \in {"createStartup", "regenerateInviteCode"} /\ k.phase = "read"
  /\ k.op = "createStartup" => RaceStartupIds \ StartupIdsInUse # {}
  /\ IF InviteCodeUniqueViolation(db_startups, k.code)
     THEN /\ calls' = (calls \ {k}) \cup {Answered(k, k.ws, k.code, "ConflictError")}
          /\ UNCHANGED <<db_startups, db_startup_members, issued>>
     ELSE IF k.op = "createStartup"
     THEN LET id == CHOOSE i \in RaceStartupIds \ StartupIdsInUse :
                      \A j \in RaceStartupIds \ StartupIdsInUse : i <= j
          IN /\ db_startups' = db_startups \cup
                  {[id |-> id, founder_id |-> k.user, invite_code |-> k.code]}
             /\ db_startup_members' = InsertMember(db_startup_members,
                  [startup_id |-> id, user_id |-> k.user, role |-> "founder"])
             /\ calls' = (calls \ {k}) \cup {Answered(k, id, k.code, "ok")}
             /\ issued' = IF k.code > issued THEN k.code ELSE issued
     ELSE /\ db_startups' = (db_startups \ {StartupById(k.ws)}) \cup
               {[StartupById(k.ws) EXCEPT !.invite_code = k.code]}
          /\ calls' = (calls \ {k}) \cup {Answered(k, k.ws, k.code, "ok")}
          /\ issued' = IF k.code > issued THEN k.code ELSE issued
          /\ UNCHANGED db_startup_members
  /\ UNCHANGED <<db_investor_swipes, db_ledger, investor_flag>>
  /\ UNCHANGED <<last, feedVars, authVars, okCount, snapshot, providerVars, onboarding>>

\* the answer reaches the caller
CallReturn(k) ==
  /\ k \in calls /\ k.phase = "done"
  /\ calls' = calls \ {k}
  /\ last' = [op |-> k.op, result |-> k.result]
  /\ UNCHANGED <<dbVars, feedVars, authVars, okCount, snapshot, providerVars, onboarding>>

\* -------------------- AuthContext.js: init, listener, requests in flight
\* The effect of lines 140-185 runs once (its dependencies fetchProfile and
\* fetchStartups never change): it starts init and subscribes the listener.
\* A session is identified with its user, 0 is the null session, and the
\* provider's user state is session?.user.
ProviderUsers == {1, NumUsers + 1}

NoApplied == [seq |-> 0, sess |-> 0]

\* the session variable the listener's closure reads: the one of the render
\* in which the effect ran, i.e. the initial state null
ListenerClosureSession == 0

\* sess?.access_token === session?.access_token
ListenerSkips(sess) == sess = ListenerClosureSession

\* setStartupsLoaded(true) follows the try/catch of fetchStartups
StartupsLoadedAfter_OnlyOnSuccess(ok) == ok

StartupsLoadedAfter(ok) == TRUE

\* what supabase.auth.getSession() can resolve with: the stored session, or
\* none when the lookup fails
GetSessionOutcomes == {idpSession, 0}

\* fetchProfile up to its first await
FetchProfileCall(caller, call, sess) ==
  [caller |-> caller, call |-> call, kind |-> "me", sess |-> sess, seq |-> 0]

\* fetchStartups up to its await
FetchStartupsCall(caller, call, sess) ==
  [caller |-> caller, call |-> call, kind |-> "startups", sess |-> sess, seq |-> fetchSeq + 1]

\* init: getSession resolves; with a session both fetches start (Promise.all)
InitGetSession(sess) ==
  /\ initPc = "start"
  /\ sess \in GetSessionOutcomes
  /\ session' = sess
  /\ IF sess # 0
     THEN /\ pending' = pending \cup
               {FetchProfileCall("init", 0, sess), FetchStartupsCall("init", 0, sess)}
          /\ fetchSeq' = fetchSeq + 1
          /\ initPc' = "waiting"
          /\ UNCHANGED <<startupsLoaded, authLoading>>
     ELSE /\ startupsLoaded' = TRUE
          /\ authLoading' = FALSE
          /\ initPc' = "done"
          /\ UNCHANGED <<pending, fetchSeq>>
  /\ UNCHANGED <<startups, currentStartup, currentStartupId, startupFetches>>
  /\ UNCHANGED <<idpSession, authEvents, profile, envCalls, applied>>
  /\ UNCHANGED <<dbVars, last, feedVars, raceVars, snapshot, onboarding>>

\* the requests init's Promise.all waits for
InitAwaits == {r \in pending : r.caller = "init"}

\* init after Promise.all: setLoading(false)
InitDone ==
  /\ initPc = "waiting"
  /\ InitAwaits = {}
  /\ authLoading' = FALSE
  /\ initPc' = "done"
  /\ UNCHANGED <<idpSession, authEvents, profile, pending, envCalls, fetchSeq, applied>>
  /\ UNCHANGED <<dbVars, last, feedVars, authVars, raceVars, snapshot, onboarding>>

\* the onAuthStateChange callback up to its first await
OnAuthStateChange ==
  /\ authEvents # <<>>
  /\ LET sess == Head(authEvents)
     IN IF ListenerSkips(sess)
        THEN UNCHANGED <<session, startups, currentStartup, startupsLoaded, profile,
                         pending, envCalls>>
        ELSE IF sess # 0
        THEN /\ envCalls < MaxEnvCalls
             /\ session' = sess
             /\ pending' = pending \cup {FetchProfileCall("listener", envCalls + 1, sess)}
             /\ envCalls' = envCalls + 1
             /\ UNCHANGED <<startups, currentStartup, startupsLoaded, profile>>
        ELSE /\ session' = 0
             /\ profile' = 0
             /\ startups' = <<>>
             /\ currentStartup' = NoStartup
             /\ startupsLoaded' = TRUE
             /\ UNCHANGED <<pending, envCalls>>
  /\ authEvents' = Tail(authEvents)
  /\ UNCHANGED <<currentStartupId, startupFetches>>
  /\ UNCHANGED <<idpSession, authLoading, initPc, fetchSeq, applied>>
  /\ UNCHANGED <<dbVars, last, feedVars, raceVars, snapshot, onboarding>>

\* fetchProfile after an await: GET /auth/me, on failure POST /auth/verify;
\* when the listener's fetchProfile is over its fetchStartups starts
FetchProfileReturn(r, ok) ==
  /\ r \in pending /\ r.kind \in {"me", "verify"}
  /\ profile' = IF ok THEN r.sess ELSE profile
  /\ IF ~ok /\ r.kind = "me"
     THEN /\ pending' = (pending \ {r}) \cup {[r EXCEPT !.kind = "verify"]}
          /\ UNCHANGED fetchSeq
     ELSE IF r.caller = "listener"
     THEN /\ pending' = (pending \ {r}) \cup {FetchStartupsCall("listener", r.call, r.sess)}
          /\ fetchSeq' = fetchSeq + 1
     ELSE /\ pending' = pending \ {r}
          /\ UNCHANGED fetchSeq
  /\ UNCHANGED <<idpSession, authEvents, authLoading, initPc, envCalls, applied>>
  /\ UNCHANGED <<dbVars, last, feedVars, authVars, raceVars, snapshot, onboarding>>

\* fetchStartups after the await, for any of its callers
FetchStartupsResponse(r, ok) ==
  /\ r \in pending /\ r.kind = "startups"
  /\ LET data == ListStartupsForUser(r.sess)
     IN IF ok
        THEN /\ startups' = data
             /\ currentStartup' = IF Len(data) > 0
                                  THEN SelectedAfterFetch(data, currentStartupId)
                                  ELSE currentStartup
             /\ applied' = [seq |-> r.seq, sess |-> r.sess]
        ELSE UNCHANGED <<startups, currentStartup, applied>>
  /\ startupsLoaded' = (startupsLoaded \/ StartupsLoadedAfter(ok))
  /\ pending' = pending \ {r}
  /\ UNCHANGED <<session, currentStartupId, startupFetches>>
  /\ UNCHANGED <<idpSession, authEvents, profile, authLoading, initPc, envCalls, fetchSeq>>
  /\ UNCHANGED <<dbVars, last, feedVars, raceVars, snapshot, onboarding>>

\* refreshStartups: if (session) await fetchStartups(session)
RefreshStartupsCall ==
  /\ session # 0
  /\ envCalls < MaxEnvCalls
  /\ pending' = pending \cup {FetchStartupsCall("refresh", envCalls + 1, session)}
  /\ envCalls' = envCalls + 1
  /\ fetchSeq' = fetchSeq + 1
  /\ UNCHANGED <<idpSession, authEvents, profile, authLoading, initPc, applied>>
  /\ UNCHANGED <<dbVars, last, feedVars, authVars, raceVars, snapshot, onboarding>>

\* signOut: supabase.auth.signOut() ends the session (and emits the
\* signed-out event), then the provider clears its state
SignOutCall ==
  /\ session # 0
  /\ Len(authEvents) < MaxAuthEvents
  /\ idpSession' = 0
  /\ authEvents' = Append(authEvents, 0)
  /\ session' = 0
  /\ profile' = 0
  /\ startups' = <<>>
  /\ currentStartup' = NoStartup
  /\ currentStartupId' = 0
  /\ UNCHANGED <<startupsLoaded, startupFetches>>
  /\ UNCHANGED <<authLoading, initPc, pending, envCalls, fetchSeq, applied>>
  /\ UNCHANGED <<dbVars, last, feedVars, raceVars, snapshot, onboarding>>

\* the identity provider changes the session elsewhere (another tab, expiry)
\* and emits the event
IdpSessionChange(sess) ==
  /\ sess # idpSession
  /\ Len(authEvents) < MaxAuthEvents
  /\ idpSession' = sess
  /\ authEvents' = Append(authEvents, sess)
  /\ UNCHANGED <<profile, authLoading, initPc, pending, envCalls, fetchSeq, applied>>
  /\ UNCHANGED <<dbVars, last, feedVars, authVars, raceVars, snapshot, onboarding>>

\* ------------------------------ OnboardingPage (AIInsightsPage.js), join
\* the invite codes typed into the form: 0 is the empty input, the last one
\* is a code no workspace has
TypedCodes == 0..(NumSeedStartups + 1)

\* handleJoinStartup up to the await
HandleJoinStartup(code) ==
  /\ onboarding.state = "idle" /\ onboarding.route = "onboarding"
  /\ code \in TypedCodes
  /\ fetchSeq < MaxFetchSeq
  /\ onboarding' =
       IF code = 0
       THEN [onboarding EXCEPT !.toast = "Please enter an invite code"]
       ELSE IF session = 0
       THEN [onboarding EXCEPT !.toast = "Session expired. Please sign in again.",
                               !.route = "auth"]
       ELSE [onboarding EXCEPT !.state = "posted", !.user = session, !.code = code,
                               !.answer = "none"]
  /\ UNCHANGED <<dbVars, last, feedVars, authVars, raceVars, snapshot, providerVars>>

\* POST /startups/join handled by the server: the caller joins as member
ServeJoin ==
  /\ onboarding.state = "posted"
  /\ db_startup_members' = JoinWrite(onboarding.user, onboarding.code, "member")
  /\ last' = [op |-> "join", result |-> JoinResult(onboarding.user, onboarding.code, "member")]
  /\ onboarding' = [onboarding EXCEPT
       !.state = "answered",
       !.answer = JoinResult(onboarding.user, onboarding.code, "member")]
  /\ UNCHANGED <<db_startups, db_investor_swipes, db_ledger, investor_flag, issued>>
  /\ UNCHANGED <<feedVars, authVars, raceVars, snapshot, providerVars>>

\* the request does not reach the server (no err.response)
JoinRequestFails ==
  /\ onboarding.state = "posted"
  /\ onboarding' = [onboarding EXCEPT !.state = "answered", !.answer = "NetworkError"]
  /\ UNCHANGED <<dbVars, last, feedVars, authVars, raceVars, snapshot, providerVars>>

\* what the catch branch shows for an answer that is not ok
JoinErrorToast(answer) ==
  IF answer = "NetworkError" THEN "Invalid invite code" ELSE answer

\* handleJoinStartup after the await: try continues with refreshStartups,
\* catch raises the error toast; setLoading(false)
JoinReturn ==
  /\ onboarding.state = "answered"
  /\ IF onboarding.answer = "ok"
     THEN /\ onboarding' = [onboarding EXCEPT !.state = "refreshing"]
          /\ IF session # 0
             THEN /\ pending' = pending \cup {FetchStartupsCall("onboarding", 0, session)}
                  /\ fetchSeq' = fetchSeq + 1
             ELSE UNCHANGED <<pending, fetchSeq>>
     ELSE /\ onboarding' = [onboarding EXCEPT
               !.state = "idle", !.toast = JoinErrorToast(onboarding.answer)]
          /\ UNCHANGED <<pending, fetchSeq>>
  /\ UNCHANGED <<idpSession, authEvents, profile, authLoading, initPc, envCalls, applied>>
  /\ UNCHANGED <<dbVars, last, feedVars, authVars, raceVars, snapshot>>

\* handleJoinStartup after refreshStartups: success toast, navigate('/dashboard')
JoinFinish ==
  /\ onboarding.state = "refreshing"
  /\ {r \in pending : r.caller = "onboarding"} = {}
  /\ onboarding' = [onboarding EXCEPT
       !.state = "idle", !.toast = "Joined workspace successfully!", !.route = "dashboard"]
  /\ UNCHANGED <<dbVars, last, feedVars, authVars, raceVars, snapshot, providerVars>>

\* the user opens the onboarding page again (the "+ Create New Workspace"
\* entry of the workspace selector)
OpenOnboarding ==
  /\ onboarding.state = "idle" /\ onboarding.route = "dashboard"
  /\ onboarding' = [onboarding EXCEPT !.route = "onboarding"]
  /\ UNCHANGED <<dbVars, last, feedVars, authVars, raceVars, snapshot, providerVars>>

\* ------------------------------------------------------- specification
IdleFeed ==
  /\ feedUser = 0
  /\ loading = FALSE
  /\ browsableStartups = <<>>
  /\ currentIndex = 0
  /\ matches = <<>>
  /\ fetch = NoFetch
  /\ inflight = {}
  /\ lastDecision = [w \in SeedStartupIds |-> "none"]
  /\ toast = "none"

IdleAuth ==
  /\ session = 0
  /\ startups = <<>>
  /\ currentStartup = NoStartup
  /\ startupsLoaded = FALSE
  /\ currentStartupId = 0
  /\ startupFetches = {}

IdleProvider ==
  /\ idpSession = 0
  /\ authEvents = <<>>
  /\ profile = 0
  /\ authLoading = TRUE
  /\ initPc = "start"
  /\ pending = {}
  /\ envCalls = 0
  /\ fetchSeq = 0
  /\ applied = NoApplied

NoJoinForm ==
  [state |-> "idle", user |-> 0, code |-> 0, answer |-> "none", toast |-> "none",
   route |-> "onboarding"]

IdleOnboarding == onboarding = NoJoinForm

IdleRace ==
  /\ calls = {}
  /\ okCount = [p \in RaceStartupIds \X (Users \cup Joiners) |-> 0]

\* the empty store, no page open
Init ==
  /\ db_startups = {}
  /\ db_startup_members = {}
  /\ db_investor_swipes = {}
  /\ db_ledger = {}
  /\ investor_flag = {}
  /\ issued = 0
  /\ last = [op |-> "none", result |-> "none"]
  /\ IdleFeed
  /\ IdleAuth
  /\ IdleRace
  /\ IdleProvider
  /\ IdleOnboarding
  /\ snapshot = NoSnapshot

\* the registry, matching and ledger calls, by any user
Next ==
  \/ \E u \in Users, r \in {"founder", "investor"} :
       CreateStartup(u, TRUE, r, FreshCode)
  \/ \E u \in Users : CreateStartup(u, FALSE, "founder", 1)
  \/ \E u \in Users, c \in Codes, r \in {"member", "investor"} : JoinStartup(u, c, r)
  \/ \E ws \in StartupIds, a \in Users : RegenerateInviteCode(ws, a, FreshCode)
  \/ \E ws \in StartupIds, a \in Users, t \in Users : RemoveMember(ws, a, t)
  \/ \E ws \in StartupIds, a \in Users, t \in Users, r \in {"manager", "member"} :
       ChangeRole(ws, a, t, r)
  \/ \E u \in Users, ws \in StartupIds, a \in SwipeActions : Swipe(u, ws, a)
  \/ \E u \in Users, ws \in StartupIds : RemoveMatch(u, ws)
  \/ \E u \in Users, ws \in StartupIds, k \in LedgerKinds, amt \in Amounts :
       Cardinality(db_ledger) < MaxLedgerRows /\ AddLedgerEntry(u, ws, k, amt, 1)

Spec == Init /\ [][Next]_vars

\* a store as the registry calls leave it: user 1 founded every workspace but
\* the last, which is the portfolio workspace of the investor (the last user)
SeedInvestor == NumUsers

SeedFounder(ws) == IF ws = NumSeedStartups THEN SeedInvestor ELSE 1

SeedDb ==
  /\ db_startups =
       {[id |-> w, founder_id |-> SeedFounder(w), invite_code |-> w] : w \in SeedStartupIds}
  /\ db_startup_members =
       {[startup_id |-> w, user_id |-> SeedFounder(w),
         role |-> IF w = NumSeedStartups THEN "investor" ELSE "founder"] : w \in SeedStartupIds}
  /\ db_investor_swipes = {}
  /\ db_ledger = {}
  /\ investor_flag = {SeedInvestor}
  /\ issued = NumSeedStartups
  /\ last = [op |-> "none", result |-> "none"]

\* the discover page right after it mounted for some signed-in user
InitFeed ==
  /\ SeedDb
  /\ feedUser \in Users
  /\ loading = TRUE
  /\ browsableStartups = <<>>
  /\ currentIndex = 0
  /\ matches = <<>>
  /\ fetch = [NoFetch EXCEPT !.state = "pending"]
  /\ inflight = {}
  /\ lastDecision = [w \in SeedStartupIds |-> "none"]
  /\ toast = "none"
  /\ IdleAuth
  /\ IdleRace
  /\ IdleProvider
  /\ IdleOnboarding
  /\ snapshot = NoSnapshot

NextFeed ==
  \/ LoadAll
  \/ ServeBrowse
  \/ ServeMatches
  \/ FetchReturn
  \/ \E a \in SwipeActions : HandleSwipe(a)
  \/ \E r \in inflight : ServeSwipe(r)
  \/ \E r \in inflight : RequestFails(r)
  \/ \E r \in inflight : SwipeReturn(r)
  \/ \E ws \in SeedStartupIds : HandleRemoveMatch(ws)
  \/ \E r \in inflight : ServeRemove(r)
  \/ \E r \in inflight : RemoveReturn(r)
  \/ HandleUndoSwipe

SpecFeed == InitFeed /\ [][NextFeed]_vars

\* the provider before anyone signed in, over the seeded store
InitAuth ==
  /\ SeedDb
  /\ IdleFeed
  /\ IdleAuth
  /\ IdleRace
  /\ IdleProvider
  /\ IdleOnboarding
  /\ snapshot = NoSnapshot

NextAuth ==
  \/ \E u \in Users, ok \in BOOLEAN : SignIn(u, ok)
  \/ \E f \in startupFetches : FetchStartupsReturn(f)
  \/ \E i \in 1..NumSeedStartups : SelectStartup(i)
  \/ \E ok \in BOOLEAN : RefreshStartups(ok)
  \/ SignOut
  \/ \E u \in Users, c \in SeedStartupIds : JoinStartup(u, c, "member")
  \/ \E ws \in SeedStartupIds, t \in Users : RemoveMember(ws, SeedFounder(ws), t)
  \/ \E ws \in SeedStartupIds, t \in Users, r \in {"manager", "member"} :
       ChangeRole(ws, SeedFounder(ws), t, r)

SpecAuth == InitAuth /\ [][NextAuth]_vars

\* the seeded store, no page open and no call in progress
InitRace ==
  /\ SeedDb
  /\ IdleFeed
  /\ IdleAuth
  /\ IdleRace
  /\ IdleProvider
  /\ IdleOnboarding
  /\ snapshot = NoSnapshot

\* the registry with read and write steps interleaved
NextRace ==
  \/ \E u \in Joiners, c \in {1, NumSeedStartups + MaxRaceCodes + 1} : PostJoin(u, c)
  \/ \E k \in calls : JoinLookup(k)
  \/ \E k \in calls : JoinInsert(k)
  \/ \E u \in Joiners : PostCreate(u)
  \/ \E ws \in 1..2 : PostRegenerate(ws, SeedFounder(ws))
  \/ \E k \in calls : Generate(k)
  \/ \E k \in calls : WriteCode(k)
  \/ \E k \in calls : CallReturn(k)

SpecRace == InitRace /\ [][NextRace]_vars

\* the ledger of the seeded workspaces and the metrics computed from it
Months == 1..NumMonths

SnapshotAmounts == (-1)..MaxAmount

\* the page that asked for the snapshot renders it and lets it go
DropSnapshot ==
  /\ snapshot # NoSnapshot
  /\ snapshot' = NoSnapshot
  /\ UNCHANGED <<dbVars, last, feedVars, authVars, raceVars, providerVars, onboarding>>

\* calls are handled one after the other: the founder books income and
\* expenses, the investor joins, leaves and records investments
NextLedger ==
  \/ \E r \in {"member", "investor"} :
       snapshot = NoSnapshot /\ JoinStartup(SeedInvestor, 1, r)
  \/ snapshot = NoSnapshot /\ RemoveMember(1, SeedFounder(1), SeedInvestor)
  \/ \E ws \in 1..2, amt \in SnapshotAmounts :
       /\ snapshot = NoSnapshot /\ Cardinality(db_ledger) < MaxSnapshotRows
       /\ AddLedgerEntry(SeedFounder(ws), ws, "income", amt, 1)
  \/ \E amt \in SnapshotAmounts, m \in Months :
       /\ snapshot = NoSnapshot /\ Cardinality(db_ledger) < MaxSnapshotRows
       /\ AddLedgerEntry(SeedFounder(1), 1, "expenses", amt, m)
  \/ \E amt \in SnapshotAmounts :
       /\ snapshot = NoSnapshot /\ Cardinality(db_ledger) < MaxSnapshotRows
       /\ AddInvestment(SeedInvestor, 1, amt, 1)
  \/ \E ws \in SeedStartupIds : snapshot = NoSnapshot /\ GetSnapshot(ws)
  \/ DropSnapshot

SpecLedger == InitRace /\ [][NextLedger]_vars

\* deleting seeded workspaces that have members, swipes and ledger rows
NextDelete ==
  \/ \E u \in Users, c \in 1..2 : JoinStartup(u, c, "member")
  \/ \E ws \in 1..2, a \in SwipeActions : Swipe(SeedInvestor, ws, a)
  \/ \E ws \in 1..2, k \in LedgerKinds :
       Cardinality(db_ledger) < MaxLedgerRows /\ AddLedgerEntry(1, ws, k, 1, 1)
  \/ \E ws \in SeedStartupIds : DeleteStartup(ws)

SpecDelete == InitRace /\ [][NextDelete]_vars

\* the provider mounts: a session may be stored already, and the identity
\* provider may announce it to the listener (INITIAL_SESSION)
InitProvider ==
  /\ SeedDb
  /\ IdleFeed
  /\ IdleAuth
  /\ IdleRace
  /\ IdleOnboarding
  /\ snapshot = NoSnapshot
  /\ idpSession \in {0} \cup ProviderUsers
  /\ authEvents \in {<<>>, <<idpSession>>}
  /\ profile = 0
  /\ authLoading = TRUE
  /\ initPc = "start"
  /\ pending = {}
  /\ envCalls = 0
  /\ fetchSeq = 0
  /\ applied = NoApplied

NextProvider ==
  \/ \E sess \in {0} \cup ProviderUsers : InitGetSession(sess)
  \/ InitDone
  \/ OnAuthStateChange
  \/ \E r \in pending, ok \in BOOLEAN : FetchProfileReturn(r, ok)
  \/ \E r \in pending, ok \in BOOLEAN : FetchStartupsResponse(r, ok)
  \/ RefreshStartupsCall
  \/ SignOutCall
  \/ \E sess \in {0} \cup ProviderUsers : IdpSessionChange(sess)
  \/ \E i \in 1..NumSeedStartups : SelectStartup(i)
  \/ JoinStartup(NumUsers + 1, 1, "member")
  \/ RemoveMember(1, SeedFounder(1), NumUsers + 1)

SpecProvider == InitProvider /\ [][NextProvider]_vars

\* every request returns, and init's continuations run
FairProvider ==
  /\ WF_vars(\E sess \in {0} \cup ProviderUsers : InitGetSession(sess))
  /\ WF_vars(\E r \in InitAwaits, ok \in BOOLEAN :
               FetchProfileReturn(r, ok) \/ FetchStartupsResponse(r, ok))
  /\ WF_vars(InitDone)

SpecProviderLive == SpecProvider /\ FairProvider

\* the onboarding page open for a user whose provider finished loading:
\* user 1 founded workspaces, the other user belongs to none yet
InitOnboarding ==
  /\ SeedDb
  /\ IdleFeed
  /\ IdleRace
  /\ IdleOnboarding
  /\ snapshot = NoSnapshot
  /\ session \in ProviderUsers
  /\ startups = ListStartupsForUser(session)
  /\ currentStartup = IF Len(startups) > 0 THEN startups[1] ELSE NoStartup
  /\ startupsLoaded = TRUE
  /\ currentStartupId = 0
  /\ startupFetches = {}
  /\ idpSession = session
  /\ authEvents = <<>>
  /\ profile = session
  /\ authLoading = FALSE
  /\ initPc = "done"
  /\ pending = {}
  /\ envCalls = 0
  /\ fetchSeq = 1
  /\ applied = [seq |-> 1, sess |-> session]

NextOnboarding ==
  \/ \E code \in TypedCodes : HandleJoinStartup(code)
  \/ ServeJoin
  \/ JoinRequestFails
  \/ JoinReturn
  \/ JoinFinish
  \/ OpenOnboarding
  \/ \E r \in pending, ok \in BOOLEAN : FetchStartupsResponse(r, ok)
  \/ \E i \in 1..NumSeedStartups : SelectStartup(i)
  \/ RemoveMember(1, SeedFounder(1), NumUsers + 1)

SpecOnboarding == InitOnboarding /\ [][NextOnboarding]_vars

\* ----------------------------------------------------------- properties
\* C1: for every (investor, workspace) pair there is at most one swipe row; if
\* the most recent successful call on the pair was a swipe, the row carries
\* that call's action, and if it was an undo the row is absent.
C1_LastCallDecidesRow ==
  \A ws \in SeedStartupIds :
    /\ Cardinality(SwipeRowsOf(feedUser, ws)) <= 1
    /\ lastDecision[ws] \in SwipeActions =>
         \E r \in SwipeRowsOf(feedUser, ws) : r.action = lastDecision[ws]
    /\ lastDecision[ws] = "undo" => SwipeRowsOf(feedUser, ws) = {}

FeedQuiescent == inflight = {} /\ fetch.state = "idle" /\ ~loading

C3_ContactOnlyForInterested ==
  FeedQuiescent => Range(matches) \subseteq MatchSet(feedUser)

\* C4: the answer to a browse request lists, without repetition, exactly the
\* existing workspaces the investor neither owns nor has a swipe row for.
C4_BrowseExact ==
  [][(ServeBrowse /\ fetch'.browseOk) =>
       /\ \A i \in DOMAIN fetch'.browse, j \in DOMAIN fetch'.browse :
            fetch'.browse[i] = fetch'.browse[j] => i = j
       /\ Range(fetch'.browse) =
            {s.id : s \in {x \in db_startups :
               /\ x.founder_id # feedUser
               /\ ~\E r \in db_investor_swipes :
                     r.investor_id = feedUser /\ r.startup_id = x.id}}]_vars

C4_Witness ==
  /\ fetch.browseDone /\ fetch.browseOk
  /\ fetch.browse # <<>>
  /\ \E r \in db_investor_swipes : r.investor_id = feedUser /\ r.action = "passed"
  /\ \E s \in db_startups : s.founder_id = feedUser

\* C5: after an undo or a removeMatch of a pair the pair has no swipe row and
\* the workspace is browsable again.
C5_UndoAndRemoveDeleteRow ==
  \A ws \in SeedStartupIds :
    lastDecision[ws] \in {"undo", "removed"} =>
      /\ SwipeRowsOf(feedUser, ws) = {}
      /\ ws \in BrowsableSet(feedUser)

\* C6: the capabilities in effect for a role are exactly that role's column
\* of the capability table.
TableRoles(cap) ==
  CASE cap = "canManageStartup" -> {"founder"}
    [] cap = "canAccessPitch" -> {"founder"}
    [] cap = "canManageTeam" -> {"founder"}
    [] cap = "canManageInvestors" -> {"founder"}
    [] cap = "canManageContent" -> {"founder", "manager"}
    [] cap = "canViewAnalytics" -> {"founder", "manager"}
    [] cap = "canViewTeam" -> {"founder", "manager", "member"}
    [] cap = "canViewTasks" -> {"founder", "manager", "member"}
    [] cap = "canViewInvestorFeed" -> {"investor"}
    [] cap = "canViewMyInvestments" -> {"investor"}

C6_PermissionsMatchTable ==
  currentStartup.id # 0 =>
    \A cap \in CapabilityNames : Permissions[cap] <=> (UserRole \in TableRoles(cap))

\* C7: a mutating call by an actor whose role lacks the capability the call
\* requires answers ForbiddenError and leaves every table unchanged.
Denied == last'.result = "ForbiddenError" /\ UNCHANGED dbVars

C8_OnlyInvestorsSwipe ==
  \A r \in db_investor_swipes : r.investor_id \in investor_flag

C8_Witness ==
  /\ last = [op |-> "swipe", result |-> "ForbiddenError"]
  /\ db_investor_swipes # {}

\* C9: while a workspace is selected, userRole is the user's role in that
\* workspace as fetched, and the permissions are the ones derived from it.
C9_RoleOfSelectedWorkspace ==
  currentStartup.id # 0 =>
    /\ UserRole = currentStartup.user_role
    /\ \A i \in DOMAIN startups :
         startups[i].id = currentStartup.id => startups[i].user_role = UserRole
    /\ Permissions = PermissionsOf(currentStartup.user_role)

C9_Witness ==
  /\ currentStartup.id # 0
  /\ \E i \in DOMAIN startups :
       /\ startups[i].id # currentStartup.id
       /\ startups[i].user_role # currentStartup.user_role
  /\ startups[1].id # currentStartup.id

\* C10: there is at most one membership row per (workspace, user), and a join
\* by a user who is already a member of the workspace answers ConflictError
\* and leaves the membership table unchanged.
C10_OneMembershipPerPair ==
  /\ [](\A ws \in StartupIds, u \in Users : Cardinality(MemberRows(ws, u)) <= 1)
  /\ [][last'.op = "join" =>
          \A u \in Users, c \in Codes, r \in {"member", "investor"} :
            ( /\ JoinStartup(u, c, r)
              /\ \E s \in db_startups : s.invite_code = c /\ MemberRows(s.id, u) # {} )
            => /\ last'.result = "ConflictError"
               /\ db_startup_members' = db_startup_members]_vars

C10_Witness ==
  /\ last = [op |-> "join", result |-> "ConflictError"]
  /\ \E m \in db_startup_members : m.role # "founder"

\* C12: an invite code that was replaced is never bound to a workspace again
\* and a join with it answers NotFoundError and adds no membership; a
\* regeneration by the founder binds the new code to the same workspace, and
\* one by anybody else leaves the workspace's code as it was.
C12_RegenerateInvalidatesOldCode ==
  [][/\ \A c \in 1..issued : c \notin InviteCodesInUse => c \notin InviteCodesInUse'
     /\ last'.op = "join" =>
          \A u \in Users, c \in (1..issued) \ InviteCodesInUse, r \in {"member", "investor"} :
            JoinStartup(u, c, r) =>
              /\ last'.result = "NotFoundError"
              /\ db_startup_members' = db_startup_members
     /\ last'.op = "regenerateInviteCode" =>
          \A ws \in StartupIdsInUse, a \in Users :
            RegenerateInviteCode(ws, a, FreshCode) =>
              IF RoleOf(ws, a) = "founder"
              THEN /\ last'.result = "ok"
                   /\ StartupById(ws).invite_code \notin InviteCodesInUse'
                   /\ {x.id : x \in {y \in db_startups' : y.invite_code = FreshCode}} = {ws}
              ELSE db_startups' = db_startups]_vars

C12_Witness ==
  /\ last = [op |-> "join", result |-> "NotFoundError"]
  /\ issued = NumCodes
  /\ Cardinality(InviteCodesInUse) < issued

\* C14: every workspace has exactly one founder membership, held by its
\* creator, and every founder membership belongs to an existing workspace.
C14_EveryWorkspaceHasItsFounder ==
  /\ \A s \in db_startups :
       {m \in db_startup_members : m.startup_id = s.id /\ m.role = "founder"}
         = {[startup_id |-> s.id, user_id |-> s.founder_id, role |-> "founder"]}
  /\ \A m \in db_startup_members : m.role = "founder" => m.startup_id \in StartupIdsInUse

\* C15: removeMember leaves the table unchanged when the target is the
\* workspace's founder or has no membership, and removes a row only when the
\* actor is the founder.
C15_OnlyFounderRemoves ==
  [][last'.op = "removeMember" =>
       \A ws \in StartupIdsInUse, a \in Users, t \in Users :
         RemoveMember(ws, a, t) =>
           /\ t = StartupById(ws).founder_id => db_startup_members' = db_startup_members
           /\ MemberRows(ws, t) = {} => db_startup_members' = db_startup_members
           /\ db_startup_members' # db_startup_members => RoleOf(ws, a) = "founder"]_vars

\* C11: under interleaved redemptions no (workspace, user) pair gets a second
\* membership or a second ok; every answered redemption of a bound code is
\* ok or ConflictError and leaves its caller a member; and a caller who was not
\* a member before got ok on exactly one of the attempts, whoever else
\* redeemed the same code meanwhile.
C11_ConcurrentRedemption ==
  /\ \A ws \in RaceStartupIds, u \in Users \cup Joiners :
       /\ Cardinality(MemberRows(ws, u)) <= 1
       /\ okCount[ws, u] <= 1
  /\ \A k \in calls :
       (k.op = "join" /\ k.phase = "done" /\ k.ws # 0) =>
         /\ k.result \in {"ok", "ConflictError"}
         /\ Cardinality(MemberRows(k.ws, k.user)) = 1
         /\ k.user # StartupById(k.ws).founder_id => okCount[k.ws, k.user] = 1

C11_Witness ==
  \E k1 \in calls, k2 \in calls :
    /\ k1.op = "join" /\ k2.op = "join"
    /\ k1.user = k2.user /\ k1.ws = k2.ws /\ k1.ws # 0
    /\ k1.result = "ok" /\ k2.result = "ConflictError"
    /\ \E v \in Joiners \ {k1.user} : okCount[k1.ws, v] = 1

\* C13: no two workspaces have the same invite code.
C13_InviteCodesUnique ==
  \A s1 \in db_startups, s2 \in db_startups :
    s1.invite_code = s2.invite_code => s1 = s2

\* sums written out per amount value and per month, for comparison
RECURSIVE SumByValue(_, _)
SumByValue(rows, n) ==
  IF n = 0 THEN 0
  ELSE n * Cardinality({r \in rows : r.amount = n}) + SumByValue(rows, n - 1)

RowsIn(ws, kind) == {r \in db_ledger : r.startup_id = ws /\ r.kind = kind}

ExampleLedger ==
  {[id |-> 1, kind |-> "income", startup_id |-> 1, amount |-> 100, month |-> 1, created_by |-> 1],
   [id |-> 2, kind |-> "income", startup_id |-> 1, amount |-> 50, month |-> 2, created_by |-> 1],
   [id |-> 3, kind |-> "expenses", startup_id |-> 1, amount |-> 30, month |-> 1, created_by |-> 1],
   [id |-> 4, kind |-> "expenses", startup_id |-> 1, amount |-> 20, month |-> 2, created_by |-> 1],
   [id |-> 5, kind |-> "investments", startup_id |-> 1, amount |-> 500, month |-> 1, created_by |-> 2],
   [id |-> 6, kind |-> "income", startup_id |-> 2, amount |-> 7, month |-> 1, created_by |-> 1],
   [id |-> 7, kind |-> "investments", startup_id |-> 2, amount |-> 9, month |-> 1, created_by |-> 2]}

ExampleMembers ==
  {[startup_id |-> 1, user_id |-> 1, role |-> "founder"],
   [startup_id |-> 1, user_id |-> 2, role |-> "investor"],
   [startup_id |-> 1, user_id |-> 3, role |-> "manager"],
   [startup_id |-> 1, user_id |-> 4, role |-> "member"],
   [startup_id |-> 2, user_id |-> 5, role |-> "founder"]}

\* C16: every computed snapshot has totalRaised = the workspace's investment
\* amounts summed and balance = its income + totalRaised - its expenses, rows
\* of other workspaces left out; the worked example gives 500 and 600.
C16_SnapshotSums ==
  /\ [](/\ SnapshotOf(ExampleLedger, ExampleMembers, 1).total_raised = 500
        /\ SnapshotOf(ExampleLedger, ExampleMembers, 1).balance = 600)
  /\ [][\A ws \in SeedStartupIds :
          GetSnapshot(ws) =>
            /\ snapshot'.total_raised = SumByValue(RowsIn(ws, "investments"), MaxAmount)
            /\ snapshot'.balance =
                 SumByValue(RowsIn(ws, "income"), MaxAmount)
                   + SumByValue(RowsIn(ws, "investments"), MaxAmount)
                   - SumByValue(RowsIn(ws, "expenses"), MaxAmount)]_vars

C16_Witness ==
  /\ snapshot.startup_id = 1
  /\ snapshot.total_raised > 0
  /\ snapshot.balance < snapshot.total_raised
  /\ \E r \in db_ledger : r.startup_id = 2 /\ r.amount > 0

\* C17: the burn is the per-month expense sums averaged over the months
\* present (a fraction with a positive denominator), 0 without expenses; the
\* runway is balance / burn when the burn is positive and the one fixed
\* undefined value otherwise; the worked example gives burn 25 and runway 24.
C17_RunwayNeverDividesByZero ==
  /\ [](/\ SnapshotOf(ExampleLedger, ExampleMembers, 1).monthly_burn = [num |-> 50, den |-> 2]
        /\ SnapshotOf(ExampleLedger, ExampleMembers, 1).runway = [defined |-> TRUE, value |-> 24])
  /\ [][\A ws \in SeedStartupIds :
          GetSnapshot(ws) =>
            LET burn == snapshot'.monthly_burn
                run == snapshot'.runway
                monthsPresent == {m \in Months : \E r \in RowsIn(ws, "expenses") : r.month = m}
            IN /\ burn.den > 0
               /\ burn.num = SumByValue(RowsIn(ws, "expenses"), MaxAmount)
               /\ monthsPresent # {} => burn.den = Cardinality(monthsPresent)
               /\ RowsIn(ws, "expenses") = {} => burn.num = 0
               /\ burn.num > 0 =>
                    /\ run.defined
                    /\ run.value * burn.num <= snapshot'.balance * burn.den
                    /\ snapshot'.balance * burn.den < (run.value + 1) * burn.num
               /\ burn.num = 0 => run = [defined |-> FALSE, value |-> 0]]_vars

C17_Witness ==
  /\ snapshot.startup_id = 1
  /\ snapshot.monthly_burn.num = 0
  /\ snapshot.monthly_burn.den = NumMonths
  /\ snapshot.balance > 0
  /\ ~snapshot.runway.defined

\* C18: teamSize is the number of the workspace's members whose role is not
\* investor; a step changes it by the non-investor memberships it adds minus
\* those it removes, so investor memberships never count.
C18_TeamSizeExcludesInvestors ==
  /\ [](SnapshotOf(ExampleLedger, ExampleMembers, 1).team_size = 3)
  /\ [][\A ws \in SeedStartupIds :
          /\ GetSnapshot(ws) =>
               snapshot'.team_size =
                 Cardinality({u \in Users : RoleOf(ws, u) \in {"founder", "manager", "member"}})
          /\ TeamSizeOf(db_startup_members', ws) - TeamSizeOf(db_startup_members, ws)
               = Cardinality({m \in db_startup_members' \ db_startup_members :
                                m.startup_id = ws /\ m.role # "investor"})
                 - Cardinality({m \in db_startup_members \ db_startup_members' :
                                  m.startup_id = ws /\ m.role # "investor"})]_vars

C18_Witness ==
  /\ snapshot.startup_id = 1
  /\ snapshot.team_size = 1
  /\ RoleOf(1, SeedInvestor) = "investor"

\* C19: every membership, swipe and ledger row references an existing
\* workspace, and deleting a workspace leaves the rows of the others as they were.
C19_CascadeDelete ==
  /\ [](/\ \A m \in db_startup_members : m.startup_id \in StartupIdsInUse
        /\ \A r \in db_investor_swipes : r.startup_id \in StartupIdsInUse
        /\ \A r \in db_ledger : r.startup_id \in StartupIdsInUse)
  /\ [][\A ws \in SeedStartupIds :
          DeleteStartup(ws) =>
            /\ ws \notin {x.id : x \in db_startups'}
            /\ {m \in db_startup_members' : m.startup_id # ws}
                 = {m \in db_startup_members : m.startup_id # ws}
            /\ {r \in db_investor_swipes' : r.startup_id # ws}
                 = {r \in db_investor_swipes : r.startup_id # ws}
            /\ {r \in db_ledger' : r.startup_id # ws}
                 = {r \in db_ledger : r.startup_id # ws}]_vars

C19_Witness ==
  /\ last.op = "deleteStartup"
  /\ 1 \notin StartupIdsInUse
  /\ db_investor_swipes # {}
  /\ db_ledger # {}
  /\ \E m \in db_startup_members : m.role = "member"

\* C20: every ledger row has amount >= 0; a write with a negative amount is
\* answered with an error (ValidationError when the caller may write) and
\* leaves the ledger unchanged.
C20_AmountsNonNegative ==
  /\ [](\A r \in db_ledger : r.amount >= 0)
  /\ [][last'.op = "addLedgerEntry" =>
          \A u \in Users, ws \in SeedStartupIds, k \in LedgerKinds, m \in Months :
            AddLedgerEntry(u, ws, k, -1, m) =>
              /\ db_ledger' = db_ledger
              /\ last'.result # "ok"
              /\ PermissionsOf(RoleOf(ws, u))[LedgerCapability(k)]
                   => last'.result = "ValidationError"]_vars

C20_Witness ==
  /\ last = [op |-> "addLedgerEntry", result |-> "ValidationError"]
  /\ db_ledger # {}

\* C22: the deck position stays within the deck, 0 <= currentIndex <=
\* browsableStartups.length, in every state of the discover page.
C22_IndexWithinDeck ==
  /\ 0 <= currentIndex
  /\ currentIndex <= Len(browsableStartups)

\* C23: every card below the deck position has had a swipe of the page's user
\* acknowledged by the server: no card is stepped over without a decision.
C23_NoCardSkipped ==
  \A i \in 1..currentIndex :
    i \in DOMAIN browsableStartups => lastDecision[browsableStartups[i]] # "none"

\* C24: the matches list of the page never holds the same startup twice.
C24_MatchesDistinct ==
  \A i, j \in DOMAIN matches : matches[i] = matches[j] => i = j

\* C25: when a swipe request that failed returns to the page, currentIndex,
\* the matches list and the deck are unchanged (the same card stays on top);
\* when a remove-match request that failed returns, the matches list is unchanged.
C25_FailedRequestChangesNothing ==
  [][\A r \in inflight :
       (r.status = "error" /\ inflight' = inflight \ {r}) =>
         /\ matches' = matches
         /\ r.kind = "swipe" =>
              /\ currentIndex' = currentIndex
              /\ browsableStartups' = browsableStartups
              /\ toast' = "Failed to record swipe"
         /\ r.kind = "remove" => toast' = "Failed to remove match"]_vars

C25_Witness ==
  /\ toast = "Failed to record swipe"
  /\ currentIndex = 1
  /\ matches = <<browsableStartups[1]>>
  /\ inflight = {}

\* C26: in every state of the provider, currentStartup is null or a workspace
\* whose id is in the startups list.
C26_CurrentStartupIsListed ==
  \/ currentStartup = NoStartup
  \/ \E i \in DOMAIN startups : startups[i].id = currentStartup.id

\* C30: with no workspace selected, or one that carries no user_role, the
\* derived role is member and exactly canViewTeam and canViewTasks are granted.
C30_DefaultRoleIsMember ==
  currentStartup.user_role = "undefined" =>
    /\ UserRole = "member"
    /\ Permissions = [c \in CapabilityNames |-> c \in {"canViewTeam", "canViewTasks"}]

C30_Witness ==
  /\ session # 0
  /\ startupsLoaded
  /\ currentStartup = NoStartup
  /\ startups = <<>>
  /\ \E m \in db_startup_members : m.user_id = session /\ m.role = "founder"

\* C27: when the identity provider has ended the session and the listener is
\* handed the event with no session while the provider holds a session, the
\* provider ends signed out: session (and user) null, profile null, startups
\* empty, currentStartup null.
C27_SignedOutEventClearsState ==
  [][(/\ authEvents # <<>>
      /\ Head(authEvents) = 0
      /\ idpSession = 0
      /\ authEvents' = Tail(authEvents)
      /\ session # 0)
       => /\ session' = 0
          /\ profile' = 0
          /\ startups' = <<>>
          /\ currentStartup' = NoStartup]_vars

\* C28: the response that sets startups and currentStartup belongs to a
\* fetchStartups call started later than the one whose response set them before.
C28_NewestFetchWins ==
  [][applied' # applied => applied'.seq > applied.seq]_vars

C21_ConflictIsBenign ==
  onboarding.state = "idle" =>
    /\ onboarding.answer = "ConflictError" =>
         /\ onboarding.toast = "Joined workspace successfully!"
         /\ onboarding.route = "dashboard"
    /\ (onboarding.answer = "NotFoundError" /\ onboarding.route = "onboarding") =>
         onboarding.toast = "NotFoundError"

====
